---------------------------- MODULE Spec2Model ----------------------------
(***************************************************************************)
(* scib.metrics.silhouette: the average silhouette width (silhouette) and  *)
(* its batch-aware variant (silhouette_batch), as a state machine driven   *)
(* by a caller that invokes the two functions on an annotated data matrix. *)
(*                                                                         *)
(* Numbers are exact rationals <<n, d>> with d > 0 in lowest terms; the    *)
(* pair <<0, 0>> is not-a-number (the mean of nothing, 0/0).  Embeddings   *)
(* are one-dimensional integer coordinates, so that the euclidean metric   *)
(* is |x - y| and every silhouette value is a rational.                    *)
(***************************************************************************)
EXTENDS Integers, Sequences, FiniteSets, TLC

\* Largest number of observations of the data object the caller builds.
MaxCells == 5
\* Largest number of observations when silhouette_batch is called twice.
MaxPairCells == 6
\* Largest number of observations when silhouette_batch is called once.
MaxGroupCells == 7

\* Values of adata.obs[label_key], of adata.obs[batch_key], and coordinates.
LabelValues == {0, 1}
BatchValues == {0, 1}
Coords == {0, 1}
\* The slots adata.obsm holds, and the slot names a caller may ask for.
ObsmKeys == {"X_pca"}
EmbedNames == {"X_pca", "X_emb"}

-----------------------------------------------------------------------------
(* Exact arithmetic *)

Abs(i) == IF i < 0 THEN -i ELSE i

RECURSIVE GCD(_, _)
GCD(a, b) == IF b = 0 THEN a ELSE GCD(b, a % b)

NaN == <<0, 0>>
IsNaN(r) == r[2] = 0

\* n/d in lowest terms, d > 0; anything over zero is not-a-number.
Rat(n, d) ==
    IF d = 0 THEN NaN
    ELSE LET s == IF d < 0 THEN -1 ELSE 1
             g == GCD(Abs(n), Abs(d))
         IN  <<(s * n) \div g, (s * d) \div g>>

RInt(i) == <<i, 1>>
RAdd(a, b) == IF IsNaN(a) \/ IsNaN(b) THEN NaN
              ELSE Rat(a[1] * b[2] + b[1] * a[2], a[2] * b[2])
RSub(a, b) == IF IsNaN(a) \/ IsNaN(b) THEN NaN
              ELSE Rat(a[1] * b[2] - b[1] * a[2], a[2] * b[2])
RDiv(a, b) == IF IsNaN(a) \/ IsNaN(b) THEN NaN
              ELSE Rat(a[1] * b[2], a[2] * b[1])
RMul(a, b) == IF IsNaN(a) \/ IsNaN(b) THEN NaN
              ELSE Rat(a[1] * b[1], a[2] * b[2])
RAbs(a) == <<Abs(a[1]), a[2]>>
\* Comparisons with not-a-number are false, as in IEEE arithmetic.
RLeq(a, b) == ~IsNaN(a) /\ ~IsNaN(b) /\ a[1] * b[2] <= b[1] * a[2]
RMax(a, b) == IF RLeq(a, b) THEN b ELSE a

RECURSIVE SumFn(_, _)
SumFn(f, S) ==
    IF S = {} THEN 0
    ELSE LET j == CHOOSE k \in S : TRUE IN f[j] + SumFn(f, S \ {j})

RECURSIVE RSumSeq(_)
RSumSeq(s) == IF s = <<>> THEN RInt(0) ELSE RAdd(Head(s), RSumSeq(Tail(s)))

\* numpy / pandas mean: the sum over the count, not-a-number when empty.
Mean(s) == RDiv(RSumSeq(s), RInt(Len(s)))

RECURSIVE RMinSet(_)
RMinSet(S) ==
    LET r == CHOOSE k \in S : TRUE
    IN  IF S = {r} THEN r
        ELSE LET m == RMinSet(S \ {r}) IN IF RLeq(r, m) THEN r ELSE m

Range(s) == {s[i] : i \in DOMAIN s}

-----------------------------------------------------------------------------
(* The silhouette primitive of the library (sklearn.metrics.cluster) *)

\* check_number_of_labels: 1 < n_labels < n_samples, else ValueError.
LabelCountOK(labels) ==
    LET n_labels == Cardinality(Range(labels))
    IN  1 < n_labels /\ n_labels < Len(labels)

\* silhouette_samples(X, labels, metric="euclidean"): one value per row,
\* (b - a) / max(a, b) with a the mean distance to the other members of the
\* row's own cluster and b the least mean distance to another cluster; a
\* row alone in its cluster, or with a = b = 0, gets 0 (nan_to_num).
silhouette_samples(X, labels) ==
    LET idx == DOMAIN X
        members(l) == {j \in idx : labels[j] = l}
        dist(i, l) == SumFn([j \in members(l) |-> Abs(X[i] - X[j])], members(l))
        intra(i) == Rat(dist(i, labels[i]), Cardinality(members(labels[i])) - 1)
        inter(i) == RMinSet({Rat(dist(i, l), Cardinality(members(l))) :
                                l \in Range(labels) \ {labels[i]}})
        sil(i) == LET a == intra(i)
                      b == inter(i)
                      s == RDiv(RSub(b, a), RMax(a, b))
                  IN  IF IsNaN(s) THEN RInt(0) ELSE s
    IN  [i \in idx |-> sil(i)]

\* silhouette_score: the mean of silhouette_samples over all rows.
silhouette_score(X, labels) == Mean(silhouette_samples(X, labels))


-----------------------------------------------------------------------------
(* The annotated data object and the table operations used on it *)

\* adata[mask]: the rows of a column whose mask entry is true, in order.
RECURSIVE Rows(_, _)
Rows(col, mask) ==
    IF col = <<>> THEN <<>>
    ELSE (IF Head(mask) THEN <<Head(col)>> ELSE <<>>) \o Rows(Tail(col), Tail(mask))

Subset(a, mask) ==
    [label |-> Rows(a.label, mask),
     batch |-> Rows(a.batch, mask),
     obsm  |-> [k \in DOMAIN a.obsm |-> Rows(a.obsm[k], mask)]]

\* Series.unique(): the distinct values in order of first appearance.
RECURSIVE unique(_)
unique(col) ==
    IF col = <<>> THEN <<>>
    ELSE <<Head(col)>> \o unique(SelectSeq(Tail(col), LAMBDA v : v # Head(col)))

\* Series.nunique(): the number of distinct values.
nunique(col) == Cardinality(Range(col))

\* adata.shape[0]: the number of observations.
n_obs(a) == Len(a.label)

\* The observations a caller can build: cells in a fixed order of
\* (coordinate, batch, label), so that labels interleave along the rows.
CellTypes == [label : LabelValues, batch : BatchValues, x : Coords]
CellKey(c) == (c.x * Cardinality(BatchValues) + c.batch) * Cardinality(LabelValues) + c.label

RECURSIVE SortedCells(_, _)
SortedCells(n, lo) ==
    IF n = 0 THEN {<<>>}
    ELSE UNION {{<<c>> \o s : s \in SortedCells(n - 1, CellKey(c))} :
                   c \in {t \in CellTypes : CellKey(t) >= lo}}

AnnData(cells) ==
    [label |-> [i \in DOMAIN cells |-> cells[i].label],
     batch |-> [i \in DOMAIN cells |-> cells[i].batch],
     obsm  |-> [k \in ObsmKeys |-> [i \in DOMAIN cells |-> cells[i].x]]]

AnnDatas(max) == {AnnData(cells) : cells \in UNION {SortedCells(n, 0) : n \in 1..max}}

-----------------------------------------------------------------------------
(* State *)

VARIABLES
    adata,      \* the data object the caller holds
    call,       \* arguments of the call in progress or just finished
    pc,         \* "idle", "score", "loop" or "done"
    todo,       \* silhouette_batch: groups the loop has yet to visit
    visited,    \* silhouette_batch: groups the loop has visited, in order
    sil_all,    \* silhouette_batch: the per-cell table built so far
    prims,      \* the calls made to the silhouette primitive by this call
    ret,        \* how the call ended
    prev,       \* the caller's record of its previous call
    pandas      \* what the table library does with the mean of the empty,
                \* untyped table: "unset" until a call first meets it

vars == <<adata, call, pc, todo, visited, sil_all, prims, ret, prev, pandas>>

NoCall == [fn |-> "none", embed |-> "", scale |-> FALSE, return_all |-> FALSE]
\* An outcome: "scalar" with the number as value, "triple" with the three
\* returned values in order, or the name of the error raised and its key.
NoRet == [kind |-> "none", value |-> <<>>, key |-> ""]
NoPrev == [has |-> FALSE, call |-> NoCall, ret |-> NoRet, adata |-> AnnData(<<>>)]

Returned(v) == [kind |-> "scalar", value |-> v, key |-> ""]
\* (the last two values handed back in the other order)
ReturnedAll_swapped(v, means, all) ==
    [kind |-> "triple", value |-> <<v, all, means>>, key |-> ""]
ReturnedAll(v, means, all) == [kind |-> "triple", value |-> <<v, means, all>>, key |-> ""]
Raised(kind, key) == [kind |-> kind, value |-> <<>>, key |-> key]

Start(max) ==
    /\ adata \in AnnDatas(max)
    /\ call = NoCall
    /\ pc = "idle"
    /\ todo = <<>>
    /\ visited = <<>>
    /\ sil_all = <<>>
    /\ prims = <<>>
    /\ ret = NoRet
    /\ prev = NoPrev
    /\ pandas = "unset"

Init == Start(MaxCells)

-----------------------------------------------------------------------------
(* silhouette *)

\* (the slot check left out)
EmbedMissing_never(embed, a) == FALSE
\* `embed not in adata.obsm.keys()`
EmbedMissing(embed, a) == embed \notin DOMAIN a.obsm

\* (asw + 1 / 2: the division binding before the sum)
ScaleASW_shift(asw) == RAdd(asw, RDiv(RInt(1), RInt(2)))
\* `asw = (asw + 1) / 2`
ScaleASW(asw) == RDiv(RAdd(asw, RInt(1)), RInt(2))

\* The caller may start a call when none is in progress; after a first call
\* it calls the same function on the same slot again, with any flags.
MayCall(fn, embed) ==
    /\ pc = "idle"
    /\ prev.has => (fn = prev.call.fn /\ embed = prev.call.embed)

\* Entry of silhouette: the slot check, raising KeyError when it fails.
silhouette_call ==
    \E embed \in EmbedNames, scale \in BOOLEAN :
        /\ MayCall("silhouette", embed)
        /\ call' = [fn |-> "silhouette", embed |-> embed, scale |-> scale,
                    return_all |-> FALSE]
        /\ IF EmbedMissing(embed, adata)
           THEN pc' = "done" /\ ret' = Raised("KeyError", embed)
           ELSE pc' = "score" /\ ret' = NoRet
        /\ todo' = <<>> /\ visited' = <<>> /\ sil_all' = <<>> /\ prims' = <<>>
        /\ UNCHANGED <<adata, prev, pandas>>

\* (a degenerate labelling answered with not-a-number instead of the error)
ScoreOutcome_fallback(X, labels, scale) ==
    IF ~LabelCountOK(labels)
    THEN Returned(NaN)
    ELSE LET asw == silhouette_score(X, labels)
         IN  Returned(IF scale THEN ScaleASW(asw) ELSE asw)
\* What silhouette does with the primitive: its error passes through, its
\* score is rescaled when asked and returned.
ScoreOutcome(X, labels, scale) ==
    IF ~LabelCountOK(labels)
    THEN Raised("ValueError", "")
    ELSE LET asw == silhouette_score(X, labels)
         IN  Returned(IF scale THEN ScaleASW(asw) ELSE asw)

\* The rest of silhouette: one call of the primitive and its outcome.
silhouette_return ==
    /\ pc = "score"
    /\ call.fn = "silhouette"
    /\ LET X == adata.obsm[call.embed]
           labels == adata.label
       IN  /\ prims' = Append(prims, [fn |-> "silhouette_score",
                                     n_samples |-> Len(labels),
                                     n_labels |-> nunique(labels)])
           /\ ret' = ScoreOutcome(X, labels, call.scale)
    /\ pc' = "done"
    /\ UNCHANGED <<adata, call, todo, visited, sil_all, prev, pandas>>

-----------------------------------------------------------------------------
(* silhouette_batch *)

\* `adata[adata.obs[label_key] == group]`
adata_group(a, group) == Subset(a, [i \in DOMAIN a.label |-> a.label[i] = group])

\* (only one of the two tests made)
SkipGroup_single(n_batches, n_rows) == n_batches = 1
SkipGroup_full(n_batches, n_rows) == n_batches = n_rows
\* `(n_batches == 1) or (n_batches == adata_group.shape[0])`
SkipGroup(n_batches, n_rows) == (n_batches = 1) \/ (n_batches = n_rows)

\* (the sign kept; the rescaling of silhouette used in place of 1 - i)
Magnitude_signed(s) == s
Scaled_half(a) == RDiv(RAdd(a, RInt(1)), RInt(2))
\* `abs(i)`, applied to each value of a group
Magnitude(s) == RAbs(s)
\* `1 - i`, applied to each value of a group when scale is set
Scaled(a) == RSub(RInt(1), a)

\* The rows a group adds to sil_all: "group" repeated, one score per row.
GroupRows(group, sil_per_group) ==
    [i \in DOMAIN sil_per_group |->
        [group |-> group, silhouette_score |-> sil_per_group[i]]]

RECURSIVE SortedSeq(_)
SortedSeq(S) ==
    IF S = {} THEN <<>>
    ELSE LET m == CHOOSE k \in S : \A j \in S : k <= j
         IN  <<m>> \o SortedSeq(S \ {m})

ScoresOf(table, group) ==
    LET rows == SelectSeq(table, LAMBDA r : r.group = group)
    IN  [i \in DOMAIN rows |-> rows[i].silhouette_score]

\* `sil_all.groupby("group").mean()`: one row per group present in the
\* table, in the order of the group keys, holding the mean of its scores.
GroupMeans(table) ==
    LET keys == SortedSeq({table[i].group : i \in DOMAIN table})
    IN  [i \in DOMAIN keys |->
            [group |-> keys[i], silhouette_score |-> Mean(ScoresOf(table, keys[i]))]]

\* `sil_means["silhouette_score"].mean()`
BatchASW(sil_means) ==
    Mean([i \in DOMAIN sil_means |-> sil_means[i].silhouette_score])

\* (the mean taken over all rows at once)
Aggregate_flat(table) ==
    [sil_means |-> GroupMeans(table),
     asw |-> Mean([i \in DOMAIN table |-> table[i].silhouette_score])]
\* The two-level average after the loop.
Aggregate(table) ==
    [sil_means |-> GroupMeans(table), asw |-> BatchASW(GroupMeans(table))]

\* What the function hands back: the scalar, or the three with return_all.
ReturnValue(return_all, asw, sil_means, all) ==
    IF return_all THEN ReturnedAll(asw, sil_means, all) ELSE Returned(asw)

\* Entry of silhouette_batch: the slot check, then the empty table and the
\* groups of the label column.
silhouette_batch_call ==
    \E embed \in EmbedNames, scale \in BOOLEAN, return_all \in BOOLEAN :
        /\ MayCall("silhouette_batch", embed)
        /\ call' = [fn |-> "silhouette_batch", embed |-> embed, scale |-> scale,
                    return_all |-> return_all]
        /\ IF EmbedMissing(embed, adata)
           THEN pc' = "done" /\ ret' = Raised("KeyError", embed) /\ todo' = <<>>
           ELSE pc' = "loop" /\ ret' = NoRet /\ todo' = unique(adata.label)
        /\ visited' = <<>> /\ sil_all' = <<>> /\ prims' = <<>>
        /\ UNCHANGED <<adata, prev, pandas>>

\* One pass of the loop that ends in `continue`.
silhouette_batch_skip ==
    /\ pc = "loop"
    /\ call.fn = "silhouette_batch"
    /\ todo # <<>>
    /\ LET sub == adata_group(adata, Head(todo))
           n_batches == nunique(sub.batch)
       IN  SkipGroup(n_batches, n_obs(sub))
    /\ todo' = Tail(todo)
    /\ visited' = Append(visited, Head(todo))
    /\ UNCHANGED <<adata, call, pc, sil_all, prims, ret, prev, pandas>>

\* One pass of the loop that scores the group and appends its rows; the
\* primitive's ValueError ends the call.
silhouette_batch_group ==
    /\ pc = "loop"
    /\ call.fn = "silhouette_batch"
    /\ todo # <<>>
    /\ LET group == Head(todo)
           sub == adata_group(adata, group)
           n_batches == nunique(sub.batch)
           raw == silhouette_samples(sub.obsm[call.embed], sub.batch)
           absolute == [i \in DOMAIN raw |-> Magnitude(raw[i])]
           sil_per_group == IF call.scale
                            THEN [i \in DOMAIN absolute |-> Scaled(absolute[i])]
                            ELSE absolute
       IN  /\ ~SkipGroup(n_batches, n_obs(sub))
           /\ prims' = Append(prims, [fn |-> "silhouette_samples",
                                     n_samples |-> n_obs(sub),
                                     n_labels |-> n_batches])
           /\ IF ~LabelCountOK(sub.batch)
              THEN /\ pc' = "done"
                   /\ ret' = Raised("ValueError", "")
                   /\ UNCHANGED sil_all
              ELSE /\ sil_all' = sil_all \o GroupRows(group, sil_per_group)
                   /\ UNCHANGED <<pc, ret>>
    /\ todo' = Tail(todo)
    /\ visited' = Append(visited, Head(todo))
    /\ UNCHANGED <<adata, call, prev, pandas>>

\* After the loop: the per-group means, their mean, and the return.  When
\* no group was scored, sil_all is still the frame built from column names
\* alone, whose columns hold no numbers.  What its grouped mean is rests
\* with the table library: releases that have DataFrame.append, which the
\* loop needs, leave "silhouette_score" out of the grouped mean, so that
\* `sil_means["silhouette_score"]` raises (older ones raise at the mean
\* itself); a release that keeps the column gives the mean of nothing,
\* not-a-number.  The library in use answers the same way every time.
silhouette_batch_return ==
    /\ pc = "loop"
    /\ call.fn = "silhouette_batch"
    /\ todo = <<>>
    /\ LET sil_means == Aggregate(sil_all).sil_means
           asw == Aggregate(sil_all).asw
       IN  IF sil_all # <<>>
           THEN /\ ret' = ReturnValue(call.return_all, asw, sil_means, sil_all)
                /\ UNCHANGED pandas
           ELSE /\ pandas' \in (IF pandas = "unset" THEN {"nan", "raises"} ELSE {pandas})
                /\ ret' = IF pandas' = "raises"
                          THEN Raised("AggregationError", "silhouette_score")
                          ELSE ReturnValue(call.return_all, asw, sil_means, sil_all)
    /\ pc' = "done"
    /\ UNCHANGED <<adata, call, todo, visited, sil_all, prims, prev>>

-----------------------------------------------------------------------------
(* The caller *)

\* The caller takes the outcome of the call and keeps it for comparison.
caller_records ==
    /\ pc = "done"
    /\ prev' = [has |-> TRUE, call |-> call, ret |-> ret, adata |-> adata]
    /\ pc' = "idle"
    /\ UNCHANGED <<adata, call, todo, visited, sil_all, prims, ret, pandas>>

\* Between two calls of silhouette_batch the caller may drop the
\* observations of one label group from the data object.
caller_drops_group ==
    /\ pc = "idle"
    /\ prev.has
    /\ prev.call.fn = "silhouette_batch"
    /\ prev.adata = adata
    /\ \E group \in Range(adata.label) :
        adata' = Subset(adata, [i \in DOMAIN adata.label |-> adata.label[i] # group])
    /\ UNCHANGED <<call, pc, todo, visited, sil_all, prims, ret, prev, pandas>>

Next ==
    \/ silhouette_call
    \/ silhouette_return
    \/ silhouette_batch_call
    \/ silhouette_batch_skip
    \/ silhouette_batch_group
    \/ silhouette_batch_return
    \/ caller_records
    \/ caller_drops_group

Spec == Init /\ [][Next]_vars

\* Two calls of silhouette_batch on the same, larger data object.
InitPairs == Start(MaxPairCells)

NextPairs ==
    \/ silhouette_batch_call
    \/ silhouette_batch_skip
    \/ silhouette_batch_group
    \/ silhouette_batch_return
    \/ caller_records

SpecPairs == InitPairs /\ [][NextPairs]_vars

\* One call of silhouette_batch on a still larger data object.
InitGroups == Start(MaxGroupCells)

NextGroups ==
    \/ silhouette_batch_call
    \/ silhouette_batch_skip
    \/ silhouette_batch_group
    \/ silhouette_batch_return

SpecGroups == InitGroups /\ [][NextGroups]_vars

-----------------------------------------------------------------------------
(* Vocabulary of the properties *)

IsValue(r) == r.kind \in {"scalar", "triple"}
\* The batch ASW (or ASW) a returned outcome carries.
ScalarOf(r) == IF r.kind = "triple" THEN r.value[1] ELSE r.value
InUnit(r) == RLeq(RInt(0), r) /\ RLeq(r, RInt(1))
GroupsIn(table) == {table[i].group : i \in DOMAIN table}
BatchDone == pc = "done" /\ call.fn = "silhouette_batch"
SlotPresent == call.embed \in DOMAIN adata.obsm

\* A group without batch variation, or with one batch per observation.
Degenerate(a, group) ==
    LET sub == adata_group(a, group)
    IN  nunique(sub.batch) = 1 \/ nunique(sub.batch) = n_obs(sub)

Without(a, group) == Subset(a, [i \in DOMAIN a.label |-> a.label[i] # group])

-----------------------------------------------------------------------------
\* C1: in silhouette and in silhouette_batch, a requested slot name that is
\* not a slot of the data object ends the call with the KeyError that
\* carries the requested name, before any group is visited, any row is
\* recorded or the silhouette primitive is called.
Thm_C1 ==
    (call.fn \in {"silhouette", "silhouette_batch"} /\ call.embed \notin DOMAIN adata.obsm)
        => /\ pc \in {"done", "idle"}
           /\ ret.kind = "KeyError" /\ ret.key = call.embed /\ ret.value = <<>>
           /\ prims = <<>> /\ visited = <<>> /\ sil_all = <<>> /\ todo = <<>>

Witness_C1 ==
    /\ BatchDone
    /\ call.embed = "X_emb" /\ ret.kind = "KeyError" /\ ret.key = "X_emb"
    /\ \E g \in Range(adata.label) : ~Degenerate(adata, g)

\* C2: a group with one batch value, or with as many batch values as
\* observations, is in neither table of silhouette_batch, and the outcome
\* of the call is the outcome on the data object without that group.
Thm_C2 ==
    /\ BatchDone =>
          \A g \in Range(adata.label) : Degenerate(adata, g) =>
              /\ g \notin GroupsIn(sil_all)
              /\ ret.kind = "triple" =>
                    (g \notin GroupsIn(ret.value[2]) /\ g \notin GroupsIn(ret.value[3]))
    /\ (/\ BatchDone /\ SlotPresent /\ prev.has
        /\ prev.call.scale = call.scale
        /\ \E g \in Range(prev.adata.label) :
              Degenerate(prev.adata, g) /\ adata = Without(prev.adata, g))
          => /\ IsValue(ret) = IsValue(prev.ret)
             /\ IsValue(ret) => ScalarOf(ret) = ScalarOf(prev.ret)
             /\ ~IsValue(ret) => ret.kind = prev.ret.kind

Witness_C2 ==
    /\ BatchDone /\ prev.has /\ ret.kind = "triple"
    /\ ~IsNaN(ScalarOf(ret)) /\ IsValue(prev.ret)
    /\ \E g \in Range(prev.adata.label) :
          /\ adata = Without(prev.adata, g)
          /\ n_obs(adata_group(prev.adata, g)) = 2
          /\ nunique(adata_group(prev.adata, g).batch) = 2

\* C3: the batch ASW is the unweighted mean, over the groups recorded, of
\* the per-group means, each the mean of the group's recorded values; it is
\* a function of the per-group means alone, not of the number of rows.
Thm_C3 ==
    (BatchDone /\ IsValue(ret) /\ sil_all # <<>>) =>
        LET groups == GroupsIn(sil_all)
            total(g) == RSumSeq(ScoresOf(sil_all, g))
            count(g) == RInt(Len(ScoresOf(sil_all, g)))
            mean(g) == RDiv(total(g), count(g))
            means == SortedSeq(groups)
            sum == RSumSeq([i \in DOMAIN means |-> mean(means[i])])
        IN  /\ RMul(ScalarOf(ret), RInt(Cardinality(groups))) = sum
            /\ ret.kind = "triple" =>
                  /\ Len(ret.value[2]) = Cardinality(groups)
                  /\ \A i \in DOMAIN ret.value[2] :
                        /\ ret.value[2][i].group \in groups
                        /\ ret.value[2][i].silhouette_score = mean(ret.value[2][i].group)
                  /\ ScalarOf(ret) =
                        Mean([i \in DOMAIN ret.value[2] |-> ret.value[2][i].silhouette_score])

Witness_C3 ==
    /\ BatchDone /\ ret.kind = "triple"
    /\ Len(ret.value[2]) = 2
    /\ Len(ScoresOf(sil_all, 0)) # Len(ScoresOf(sil_all, 1))
    /\ ScalarOf(ret) # Mean([i \in DOMAIN sil_all |-> sil_all[i].silhouette_score])

\* C4: every value recorded by silhouette_batch is 1 - |s| with scale and
\* |s| without, s being the primitive's value for that observation within
\* its group against the batch labels; every recorded value is in [0,1].
Thm_C4 ==
    (call.fn = "silhouette_batch" /\ pc \in {"loop", "done"}) =>
        \A g \in GroupsIn(sil_all) :
            LET sub == adata_group(adata, g)
                raw == silhouette_samples(sub.obsm[call.embed], sub.batch)
                scores == ScoresOf(sil_all, g)
            IN  /\ Len(scores) = n_obs(sub)
                /\ \A i \in DOMAIN scores :
                      /\ scores[i] = IF call.scale THEN RSub(RInt(1), RAbs(raw[i]))
                                                   ELSE RAbs(raw[i])
                      /\ InUnit(scores[i])

Witness_C4 ==
    /\ BatchDone /\ call.scale /\ IsValue(ret)
    /\ \E g \in GroupsIn(sil_all) :
          LET sub == adata_group(adata, g)
              raw == silhouette_samples(sub.obsm[call.embed], sub.batch)
          IN  \E i \in DOMAIN raw :
                 /\ raw[i][1] < 0
                 /\ ScoresOf(sil_all, g)[i] = RSub(RInt(1), RAbs(raw[i]))
                 /\ ScoresOf(sil_all, g)[i] \notin {RInt(0), RInt(1)}

\* C5: on inputs the primitive accepts, silhouette without scale returns
\* the primitive's score, in [-1,1], unchanged; with scale it returns a
\* value in [0,1] that is exactly (the unscaled result + 1) / 2.
Thm_C5 ==
    (pc = "done" /\ call.fn = "silhouette" /\ ret.kind = "scalar") =>
        LET score == silhouette_score(adata.obsm[call.embed], adata.label)
        IN  /\ ~call.scale =>
                  /\ ret.value = score
                  /\ RLeq(RInt(-1), ret.value) /\ RLeq(ret.value, RInt(1))
            /\ call.scale =>
                  /\ InUnit(ret.value)
                  /\ RMul(RInt(2), ret.value) = RAdd(score, RInt(1))
            /\ (prev.has /\ prev.ret.kind = "scalar" /\ call.scale /\ ~prev.call.scale)
                  => RMul(RInt(2), ret.value) = RAdd(prev.ret.value, RInt(1))

Witness_C5 ==
    /\ pc = "done" /\ call.fn = "silhouette" /\ ret.kind = "scalar" /\ call.scale
    /\ prev.has /\ prev.ret.kind = "scalar" /\ ~prev.call.scale
    /\ prev.ret.value[1] < 0
    /\ ret.value # prev.ret.value

\* C6: with return_all, silhouette_batch returns the batch ASW, the
\* per-group mean table and the per-cell table, in that order, and without
\* it the batch ASW alone; the batch ASW is the same in the two calls when
\* the other arguments are.
Thm_C6 ==
    (BatchDone /\ IsValue(ret)) =>
        /\ call.return_all =>
              /\ ret.kind = "triple" /\ Len(ret.value) = 3
              /\ ret.value[3] = sil_all
              /\ GroupsIn(ret.value[2]) = GroupsIn(sil_all)
              /\ Len(ret.value[2]) = Cardinality(GroupsIn(sil_all))
        /\ ~call.return_all => ret.kind = "scalar"
        /\ (/\ prev.has /\ IsValue(prev.ret) /\ prev.adata = adata
            /\ prev.call.scale = call.scale
            /\ prev.call.return_all # call.return_all)
              => ScalarOf(ret) = ScalarOf(prev.ret)

Witness_C6 ==
    /\ BatchDone /\ call.return_all /\ ret.kind = "triple"
    /\ prev.has /\ prev.ret.kind = "scalar" /\ prev.call.scale = call.scale
    /\ ~IsNaN(ScalarOf(ret))
    /\ Len(ret.value[2]) = 2

\* C7: when the slot exists and every group is skipped, silhouette_batch
\* raises nothing and returns not-a-number as the batch ASW.
Claim_C7 ==
    (BatchDone /\ SlotPresent /\ \A g \in Range(adata.label) : Degenerate(adata, g))
        => (IsValue(ret) /\ IsNaN(ScalarOf(ret)))

\* C8: when the slot exists and the labels have fewer than two distinct
\* values, or as many as there are observations, silhouette ends with the
\* primitive's error after calling the primitive once: no value comes back.
Thm_C8 ==
    (/\ pc = "done" /\ call.fn = "silhouette" /\ SlotPresent
     /\ (nunique(adata.label) < 2 \/ nunique(adata.label) = n_obs(adata)))
        => /\ ret.kind = "ValueError" /\ ret.value = <<>>
           /\ Len(prims) = 1 /\ prims[1].fn = "silhouette_score"
           /\ prims[1].n_samples = n_obs(adata)

Witness_C8 ==
    /\ pc = "done" /\ call.fn = "silhouette" /\ SlotPresent
    /\ n_obs(adata) = 2 /\ nunique(adata.label) = 2
    /\ ret.kind = "ValueError"

\* C9: every sub-population silhouette_batch hands to the primitive has at
\* least 2 and at most (its size - 1) distinct batch labels, and the call
\* never ends in the primitive's error, whatever the labels are.
Thm_C9 ==
    (call.fn = "silhouette_batch") =>
        /\ ret.kind # "ValueError"
        /\ \A i \in DOMAIN prims :
              /\ prims[i].fn = "silhouette_samples"
              /\ 2 <= prims[i].n_labels
              /\ prims[i].n_labels <= prims[i].n_samples - 1

Witness_C9 ==
    /\ BatchDone /\ IsValue(ret)
    /\ Len(prims) = 1 /\ Len(visited) = 2
    /\ \E g \in Range(adata.label) :
          n_obs(adata_group(adata, g)) = 2 /\ nunique(adata_group(adata, g).batch) = 2

\* C10: on the same input with a group that is not skipped, the call with
\* scale and the call without record the same groups with the same number
\* of rows, one per observation of the group; each per-group mean with
\* scale is 1 minus the one without, and so is the batch ASW.
Thm_C10 ==
    (/\ BatchDone /\ prev.has /\ prev.adata = adata
     /\ call.scale /\ ~prev.call.scale
     /\ SlotPresent
     /\ \E g \in Range(adata.label) : ~Degenerate(adata, g))
        => /\ IsValue(ret) /\ IsValue(prev.ret)
           /\ ScalarOf(ret) = RSub(RInt(1), ScalarOf(prev.ret))
           /\ (ret.kind = "triple" /\ prev.ret.kind = "triple") =>
                 LET means == ret.value[2]
                     before == prev.ret.value[2]
                 IN  /\ Len(means) = Len(before)
                     /\ \A i \in DOMAIN means :
                           /\ means[i].group = before[i].group
                           /\ means[i].silhouette_score =
                                 RSub(RInt(1), before[i].silhouette_score)
                           /\ Len(ScoresOf(ret.value[3], means[i].group))
                                 = Len(ScoresOf(prev.ret.value[3], means[i].group))
                           /\ Len(ScoresOf(ret.value[3], means[i].group))
                                 = n_obs(adata_group(adata, means[i].group))
                     /\ GroupsIn(ret.value[3]) = GroupsIn(prev.ret.value[3])
                     /\ GroupsIn(ret.value[3]) = GroupsIn(means)

Witness_C10 ==
    /\ BatchDone /\ prev.has /\ call.scale /\ ~prev.call.scale
    /\ ret.kind = "triple" /\ prev.ret.kind = "triple"
    /\ Len(ret.value[2]) = 2
    /\ ScalarOf(ret) # ScalarOf(prev.ret)
    /\ ret.value[2][1].silhouette_score # ret.value[2][2].silhouette_score

=============================================================================
